---- MODULE Spec2Model ----
(***************************************************************************)
(* Gesture-to-control pipeline of the hand-gesture car demo.               *)
(*                                                                         *)
(*   hgd : HandGestureDetector          (src/gestures.py)                  *)
(*   ehd : EnhancedHandGestureDetector  (src/hand_detector/                *)
(*                                       improved_hand_gesture_detector.py)*)
(*                                                                         *)
(* Real-valued quantities (steering, throttle) are kept in thousandths as  *)
(* integers; a comparison of distances  d1 > k * d2  of the source is made *)
(* on the squares, which is the same comparison for non-negative values.   *)
(***************************************************************************)
EXTENDS Integers, Sequences, FiniteSets, TLC

VARIABLES
    hgd,             \* fields of the HandGestureDetector instance
    ehd,             \* fields of the EnhancedHandGestureDetector instance
    landmarks_list,  \* hands seen by the last call of detect_gestures (<<>>: no hand)
    outcome,         \* how the last call ended: "none" | "returned" | "raised"
    controls,        \* the control record the last call returned
    hist,            \* observation of the input sequence (runs of gesture predicates)
    ehist,           \* observation of the command labels of the Enhanced detector
    ticks,           \* calls made so far to each detector, counted by the bounded runs
    cc,              \* fields of the CarController instance
    icc,             \* fields of the ImprovedCarController instance
    worker,          \* position of the command worker thread and the entry it holds
    now,             \* the clock read by time.time() / pygame.time.get_ticks(), in ms
    ret,             \* the value returned by the last call on a controller or camera manager
    car,             \* fields of the Car instance
    cam              \* fields of the CameraManager instance

vars == <<hgd, ehd, landmarks_list, outcome, controls, hist, ehist, ticks,
          cc, icc, worker, now, ret, car, cam>>

----------------------------------------------------------------------------
(* Bounds of the model                                                     *)

MaxRun == 4          \* run lengths of a predicate are counted up to this value
MaxStability == 12   \* command_stability_count is explored up to this value
MaxClip == 4         \* length of the clips of varied frames (SpecClip)
MaxSteady == 10      \* length of the runs on one unchanging hand (SpecSteady)
MaxSendTime == 500   \* the controllers are explored up to this time (ms)
MaxQueue == 2        \* commands waiting in command_queue
MaxTracked == 6      \* sends counted in success_tracking
MaxCarTime == 2000   \* the car is explored up to this time (ms)

----------------------------------------------------------------------------
(* Frame and fixed-point arithmetic                                        *)

FrameH == 480
FrameW == 640
Unit == 1000         \* 1.0 in thousandths

Abs(x) == IF x < 0 THEN -x ELSE x
Min(a, b) == IF a <= b THEN a ELSE b
Max(a, b) == IF a >= b THEN a ELSE b
Sign(x) == IF x > 0 THEN 1 ELSE IF x < 0 THEN -1 ELSE 0

\* tan(k degrees) * 1000 for k = 1..45
TanTab ==
  << 17, 35, 52, 70, 87, 105, 123, 141, 158, 176, 194, 213, 231, 249, 268,
     287, 306, 325, 344, 364, 384, 404, 424, 445, 466, 488, 510, 532, 554,
     577, 601, 625, 649, 675, 700, 727, 754, 781, 810, 839, 869, 900, 933,
     966, 1000 >>

\* arctan(num/den) in whole degrees for 0 <= num <= den, den > 0
\* (the table is increasing: the largest k with tan(k) <= num/den is the
\* number of entries that are <= num/den)
AtanOct(num, den) ==
    Cardinality({k \in 1..45 : TanTab[k] * den <= num * 1000})

\* np.degrees(np.arctan2(dy, dx)) in whole degrees, in -180..180
Atan2Deg(dy, dx) ==
    IF dx = 0 /\ dy = 0 THEN 0
    ELSE LET ax == Abs(dx)
             ay == Abs(dy)
             q  == IF ay <= ax THEN AtanOct(ay, ax) ELSE 90 - AtanOct(ax, ay)
         IN  IF dx >= 0 /\ dy >= 0 THEN q
             ELSE IF dx < 0 /\ dy >= 0 THEN 180 - q
             ELSE IF dx < 0 THEN q - 180
             ELSE -q

\* integer square root of n, searched in lo..hi
RECURSIVE ISqrtIn(_, _, _)
ISqrtIn(n, lo, hi) ==
    IF lo >= hi THEN lo
    ELSE LET mid == (lo + hi + 1) \div 2
         IN  IF mid * mid <= n THEN ISqrtIn(n, mid, hi)
                               ELSE ISqrtIn(n, lo, mid - 1)

ISqrt(n) == ISqrtIn(n, 0, 2 * Unit)

\* x ** 1.5 for x in thousandths, 0 <= x <= 2 * Unit
Pow15(x) == (x * ISqrt(x * Unit)) \div Unit

\* variant: the weights of the previous and the raw value are exchanged
Smooth_exchanged(previous, raw, alpha) ==
    (previous * (10 - alpha) + raw * alpha) \div 10

\* previous * alpha + raw * (1 - alpha), alpha in tenths
Smooth(previous, raw, alpha) == (previous * alpha + raw * (10 - alpha)) \div 10

----------------------------------------------------------------------------
(* Hands: lists of (x, y) pixel landmarks, index 0 = wrist ... 20 = pinky  *)
(* tip.  A TLA+ sequence starts at 1, so landmark i is element i + 1.      *)

\* open palm, fingers up
OpenPalmUp ==
  << <<320, 240>>, <<300, 220>>, <<280, 200>>, <<260, 170>>, <<240, 140>>, <<290, 140>>, <<285, 107>>, <<280, 73>>, <<275, 40>>, <<315, 135>>, <<315, 97>>, <<315, 58>>, <<315, 20>>, <<340, 140>>, <<345, 107>>, <<350, 73>>, <<355, 40>>, <<365, 150>>, <<375, 123>>, <<385, 97>>, <<395, 70>> >>
\* open palm, fingers pointing down: every fingertip is below its knuckle
OpenPalmDown ==
  << <<320, 240>>, <<300, 260>>, <<280, 280>>, <<260, 310>>, <<240, 340>>, <<290, 340>>, <<285, 373>>, <<280, 407>>, <<275, 440>>, <<315, 345>>, <<315, 383>>, <<315, 422>>, <<315, 460>>, <<340, 340>>, <<345, 373>>, <<350, 407>>, <<355, 440>>, <<365, 330>>, <<375, 357>>, <<385, 383>>, <<395, 410>> >>
\* the same with the thumb raised above the wrist
OpenPalmDownThumbUp ==
  << <<320, 240>>, <<300, 230>>, <<280, 220>>, <<260, 195>>, <<240, 170>>, <<290, 340>>, <<285, 373>>, <<280, 407>>, <<275, 440>>, <<315, 345>>, <<315, 383>>, <<315, 422>>, <<315, 460>>, <<340, 340>>, <<345, 373>>, <<350, 407>>, <<355, 440>>, <<365, 330>>, <<375, 357>>, <<385, 383>>, <<395, 410>> >>
\* closed fist, thumb tucked in
Fist ==
  << <<320, 240>>, <<305, 230>>, <<290, 220>>, <<295, 235>>, <<300, 250>>, <<290, 140>>, <<320, 150>>, <<293, 160>>, <<295, 170>>, <<315, 135>>, <<316, 146>>, <<317, 157>>, <<318, 168>>, <<340, 140>>, <<339, 150>>, <<339, 160>>, <<338, 170>>, <<365, 150>>, <<330, 150>>, <<362, 167>>, <<360, 175>> >>
\* closed fist, thumb up
ThumbUp ==
  << <<320, 240>>, <<305, 230>>, <<290, 220>>, <<285, 170>>, <<280, 120>>, <<290, 140>>, <<320, 150>>, <<293, 160>>, <<295, 170>>, <<315, 135>>, <<316, 146>>, <<317, 157>>, <<318, 168>>, <<340, 140>>, <<339, 150>>, <<339, 160>>, <<338, 170>>, <<365, 150>>, <<330, 150>>, <<362, 167>>, <<360, 175>> >>
\* index finger up, the other fingers curled
PointUp ==
  << <<320, 240>>, <<305, 230>>, <<290, 220>>, <<295, 235>>, <<300, 250>>, <<290, 140>>, <<320, 150>>, <<263, 73>>, <<250, 40>>, <<315, 135>>, <<316, 146>>, <<317, 157>>, <<318, 168>>, <<340, 150>>, <<339, 160>>, <<339, 170>>, <<338, 180>>, <<360, 170>>, <<330, 150>>, <<357, 187>>, <<355, 195>> >>
\* a fist whose wrist is below the bottom edge of the frame
WristBelowFrame ==
  << <<320, 510>>, <<305, 500>>, <<290, 490>>, <<295, 505>>, <<300, 520>>, <<290, 410>>, <<320, 420>>, <<293, 430>>, <<295, 440>>, <<315, 405>>, <<316, 416>>, <<317, 427>>, <<318, 438>>, <<340, 410>>, <<339, 420>>, <<339, 430>>, <<338, 440>>, <<365, 420>>, <<330, 420>>, <<362, 437>>, <<360, 445>> >>
\* a hand for which fewer than 21 landmarks are supplied
TooFewLandmarks ==
  << <<320, 240>>, <<300, 220>>, <<280, 200>>, <<260, 170>>, <<240, 140>> >>

\* open palm turned to the left, wrist near the top of the frame
TiltedHigh ==
  << <<400, 60>>, <<392, 87>>, <<383, 114>>, <<366, 146>>, <<349, 178>>, <<326, 133>>, <<299, 153>>, <<271, 174>>, <<245, 194>>, <<310, 114>>, <<276, 132>>, <<242, 150>>, <<208, 168>>, <<302, 89>>, <<271, 100>>, <<238, 112>>, <<207, 123>>, <<299, 63>>, <<271, 66>>, <<243, 70>>, <<215, 74>> >>
\* open palm turned to the upper right, wrist near the bottom of the frame
TiltedLow ==
  << <<200, 420>>, <<207, 393>>, <<215, 365>>, <<231, 333>>, <<247, 301>>, <<272, 344>>, <<298, 323>>, <<325, 302>>, <<351, 281>>, <<288, 363>>, <<321, 344>>, <<355, 325>>, <<388, 306>>, <<297, 387>>, <<328, 375>>, <<360, 362>>, <<391, 350>>, <<300, 414>>, <<329, 409>>, <<356, 405>>, <<385, 400>> >>
\* open palm turned to the lower right
TiltedMid ==
  << <<200, 200>>, <<227, 193>>, <<255, 185>>, <<291, 183>>, <<327, 181>>, <<302, 224>>, <<333, 236>>, <<365, 249>>, <<396, 261>>, <<293, 248>>, <<326, 267>>, <<360, 287>>, <<393, 306>>, <<277, 267>>, <<303, 288>>, <<330, 309>>, <<356, 330>>, <<255, 284>>, <<274, 306>>, <<291, 328>>, <<310, 350>> >>
\* an open palm pointing down whose wrist is above the top edge of the frame
WristAboveFrame ==
  << <<320, -120>>, <<300, -100>>, <<280, -80>>, <<260, -50>>, <<240, -20>>, <<290, -20>>, <<285, 13>>, <<280, 47>>, <<275, 80>>, <<315, -15>>, <<315, 23>>, <<315, 62>>, <<315, 100>>, <<340, -20>>, <<345, 13>>, <<350, 47>>, <<355, 80>>, <<365, -30>>, <<375, -3>>, <<385, 23>>, <<395, 50>> >>
\* index finger pointing to the lower left, the knuckles one above the
\* other, wrist in the lower part of the frame
PointLeftLow ==
  << <<400, 370>>, <<393, 387>>, <<386, 403>>, <<399, 395>>, <<413, 388>>, <<307, 417>>, <<311, 386>>, <<245, 455>>, <<215, 474>>, <<297, 393>>, <<308, 390>>, <<319, 387>>, <<329, 384>>, <<308, 366>>, <<318, 365>>, <<328, 363>>, <<338, 363>>, <<324, 343>>, <<310, 376>>, <<341, 343>>, <<350, 343>> >>

Hands == {OpenPalmUp, OpenPalmDown, OpenPalmDownThumbUp, Fist, ThumbUp,
          PointUp, WristBelowFrame, TooFewLandmarks}

\* what get_landmarks can hand to detect_gestures: no hand, or one hand
Frames == {<<>>} \cup {<<h>> : h \in Hands}

\* hands at different heights and angles, in and out of the frame
ClipHands == {TiltedHigh, TiltedLow, TiltedMid, ThumbUp, WristAboveFrame,
              WristBelowFrame}
ClipFrames == {<<>>} \cup {<<h>> : h \in ClipHands}

\* one hand for every branch of the Enhanced classification
DriveHands == {OpenPalmUp, ThumbUp, Fist, PointUp, PointLeftLow, TiltedHigh}
DriveFrames == {<<>>} \cup {<<h>> : h \in DriveHands}

\* hands held still in front of the camera
SteadyHands == {OpenPalmUp, TiltedHigh, TiltedLow, TiltedMid}

Lm(landmarks, i) == landmarks[i + 1]
X(p) == p[1]
Y(p) == p[2]

\* all 21 landmarks of a hand lie inside the frame
InFrame(landmarks) ==
    /\ Len(landmarks) = 21
    /\ \A i \in 1..21 : /\ 0 <= X(landmarks[i]) /\ X(landmarks[i]) <= FrameW
                        /\ 0 <= Y(landmarks[i]) /\ Y(landmarks[i]) <= FrameH

\* square of calculate_distance(point1, point2)
calculate_distance2(point1, point2) ==
    (X(point1) - X(point2)) * (X(point1) - X(point2))
  + (Y(point1) - Y(point2)) * (Y(point1) - Y(point2))

----------------------------------------------------------------------------
(* HandGestureDetector (src/gestures.py)                                   *)

stable_frames_required == 3
hgd_steering_smoothing == 6      \* 0.6, in tenths
hgd_throttle_smoothing == 5      \* 0.5, in tenths

\* HandGestureDetector.__init__
hgd_init ==
    [prev_steering |-> 0, prev_throttle |-> 0,
     braking_active |-> FALSE, boost_active |-> FALSE,
     brake_stable_count |-> 0, boost_stable_count |-> 0]

\* the default control record of detect_gestures
hgd_default_controls ==
    [steering |-> 0, throttle |-> 200, braking |-> FALSE, boost |-> FALSE,
     gesture_name |-> "No hand detected"]

\* index_curled and middle_curled and ring_curled and pinky_curled
fist_detected(landmarks) ==
    /\ Y(Lm(landmarks, 8))  > Y(Lm(landmarks, 5))
    /\ Y(Lm(landmarks, 12)) > Y(Lm(landmarks, 9))
    /\ Y(Lm(landmarks, 16)) > Y(Lm(landmarks, 13))
    /\ Y(Lm(landmarks, 20)) > Y(Lm(landmarks, 17))

\* thumb_extended and the four fingers curled
boost_detected(landmarks) ==
    /\ Y(Lm(landmarks, 4)) < Y(Lm(landmarks, 0))
    /\ fist_detected(landmarks)

\* HandGestureDetector.is_stop_gesture
is_stop_gesture(landmarks) ==
    IF Len(landmarks) < 21 THEN FALSE
    ELSE LET wrist      == Lm(landmarks, 0)
             index_tip  == Lm(landmarks, 8)
             middle_tip == Lm(landmarks, 12)
             ring_tip   == Lm(landmarks, 16)
             pinky_tip  == Lm(landmarks, 20)
             index_pip  == Lm(landmarks, 6)
             pinky_pip  == Lm(landmarks, 18)
             pw2 == calculate_distance2(Lm(landmarks, 5), Lm(landmarks, 17))
             fingers_extended ==
                 /\ calculate_distance2(index_tip, wrist)  * 100 > 64 * pw2
                 /\ calculate_distance2(middle_tip, wrist) * 100 > 64 * pw2
                 /\ calculate_distance2(ring_tip, wrist)   * 100 > 49 * pw2
                 /\ calculate_distance2(pinky_tip, wrist)  * 100 > 36 * pw2
             fingers_spread ==
                 /\ calculate_distance2(index_tip, middle_tip) * 100 > 4 * pw2
                 /\ calculate_distance2(middle_tip, ring_tip)  * 100 > 4 * pw2
                 /\ calculate_distance2(ring_tip, pinky_tip)   * 100 > 4 * pw2
             palm_facing ==
                 calculate_distance2(index_pip, pinky_pip) * 100 > 36 * pw2
         IN  fingers_extended /\ fingers_spread /\ palm_facing

\* raw steering from the angle of the wrist -> middle fingertip vector
hgd_raw_steering(landmarks) ==
    LET dx == X(Lm(landmarks, 12)) - X(Lm(landmarks, 0))
        dy == Y(Lm(landmarks, 12)) - Y(Lm(landmarks, 0))
        hand_angle == Atan2Deg(dy, dx)
        raw == IF -45 <= hand_angle /\ hand_angle <= 45
                 THEN (hand_angle * Unit) \div 45
               ELSE IF hand_angle > 135 \/ hand_angle < -135
                 THEN IF hand_angle > 0
                        THEN ((hand_angle - 180) * Unit) \div 45
                        ELSE ((hand_angle + 180) * Unit) \div 45
               ELSE 0
    IN  Sign(raw) * ((raw * raw) \div Unit)

\* 1.0 - wrist_y / h, in thousandths (negative when the wrist is below the frame)
hgd_normalized_y(landmarks) == Unit - (Y(Lm(landmarks, 0)) * Unit) \div FrameH

\* max(0.0, min(1.0, raw_throttle ** 1.5)), defined for a non-negative base
hgd_raw_throttle(landmarks) ==
    Max(0, Min(Unit, Pow15(hgd_normalized_y(landmarks))))

\* variant: the no-hand branch also resets the brake counter
hgd_no_hand_reset(c) ==
    LET s == [c.self EXCEPT !.boost_active = FALSE, !.boost_stable_count = 0,
                            !.brake_stable_count = 0]
    IN  [self |-> s,
         controls |-> [c.controls EXCEPT !.braking = s.braking_active]]

\* the no-hand branch: boost is cancelled, braking decays
hgd_no_hand(c) ==
    LET s  == c.self
        s1 == [s EXCEPT !.boost_active = FALSE, !.boost_stable_count = 0]
        s2 == IF s1.brake_stable_count > 0
                THEN [s1 EXCEPT !.brake_stable_count = @ - 1]
                ELSE [s1 EXCEPT !.braking_active = FALSE]
    IN  [self |-> s2,
         controls |-> [c.controls EXCEPT !.braking = s2.braking_active]]

\* smoothing of the steering value
hgd_steering(c, landmarks) ==
    LET steering == Smooth(c.self.prev_steering, hgd_raw_steering(landmarks),
                           hgd_steering_smoothing)
    IN  [self |-> [c.self EXCEPT !.prev_steering = steering],
         controls |-> [c.controls EXCEPT !.steering = steering]]

\* smoothing of the throttle value
hgd_throttle(c, landmarks) ==
    LET throttle == Smooth(c.self.prev_throttle, hgd_raw_throttle(landmarks),
                           hgd_throttle_smoothing)
    IN  [self |-> [c.self EXCEPT !.prev_throttle = throttle],
         controls |-> [c.controls EXCEPT !.throttle = throttle]]

\* variant: brake activates one frame early (threshold - 1)
hgd_update_brake_early(c, fist) ==
    LET s == c.self
        n == Min(stable_frames_required, s.brake_stable_count + 1)
        c1 == IF fist
                THEN IF n >= stable_frames_required - 1
                       THEN [self |-> [s EXCEPT !.brake_stable_count = n,
                                                !.braking_active = TRUE],
                             controls |-> [c.controls EXCEPT
                                             !.gesture_name = "Fist (Braking)"]]
                       ELSE [c EXCEPT !.self.brake_stable_count = n]
              ELSE IF s.brake_stable_count > 0
                THEN [c EXCEPT !.self.brake_stable_count = @ - 1]
                ELSE [c EXCEPT !.self.braking_active = FALSE]
    IN  [c1 EXCEPT !.controls.braking = c1.self.braking_active]

\* variant: brake activates only above the threshold (> instead of >=)
hgd_update_brake_strict(c, fist) ==
    LET s == c.self
        n == Min(stable_frames_required, s.brake_stable_count + 1)
        c1 == IF fist
                THEN IF n > stable_frames_required
                       THEN [self |-> [s EXCEPT !.brake_stable_count = n,
                                                !.braking_active = TRUE],
                             controls |-> [c.controls EXCEPT
                                             !.gesture_name = "Fist (Braking)"]]
                       ELSE [c EXCEPT !.self.brake_stable_count = n]
              ELSE IF s.brake_stable_count > 0
                THEN [c EXCEPT !.self.brake_stable_count = @ - 1]
                ELSE [c EXCEPT !.self.braking_active = FALSE]
    IN  [c1 EXCEPT !.controls.braking = c1.self.braking_active]

\* variant: a false predicate resets the brake counter instead of decrementing it
hgd_update_brake_reset(c, fist) ==
    LET s == c.self
        n == Min(stable_frames_required, s.brake_stable_count + 1)
        c1 == IF fist
                THEN IF n >= stable_frames_required
                       THEN [self |-> [s EXCEPT !.brake_stable_count = n,
                                                !.braking_active = TRUE],
                             controls |-> [c.controls EXCEPT
                                             !.gesture_name = "Fist (Braking)"]]
                       ELSE [c EXCEPT !.self.brake_stable_count = n]
              ELSE IF s.brake_stable_count > 0
                THEN [c EXCEPT !.self.brake_stable_count = 0]
                ELSE [c EXCEPT !.self.braking_active = FALSE]
    IN  [c1 EXCEPT !.controls.braking = c1.self.braking_active]

\* "Update brake stable counter"
hgd_update_brake(c, fist) ==
    LET s == c.self
        n == Min(stable_frames_required, s.brake_stable_count + 1)
        c1 == IF fist
                THEN IF n >= stable_frames_required
                       THEN [self |-> [s EXCEPT !.brake_stable_count = n,
                                                !.braking_active = TRUE],
                             controls |-> [c.controls EXCEPT
                                             !.gesture_name = "Fist (Braking)"]]
                       ELSE [c EXCEPT !.self.brake_stable_count = n]
              ELSE IF s.brake_stable_count > 0
                THEN [c EXCEPT !.self.brake_stable_count = @ - 1]
                ELSE [c EXCEPT !.self.braking_active = FALSE]
    IN  [c1 EXCEPT !.controls.braking = c1.self.braking_active]

\* variant: boost is released as soon as its predicate is false (no latch)
hgd_update_boost_unlatched(c, boost) ==
    LET s == c.self
        n == Min(stable_frames_required, s.boost_stable_count + 1)
        c1 == IF boost
                THEN IF n >= stable_frames_required
                       THEN [self |-> [s EXCEPT !.boost_stable_count = n,
                                                !.boost_active = TRUE],
                             controls |-> [c.controls EXCEPT
                                             !.boost = TRUE,
                                             !.throttle = Unit,
                                             !.gesture_name = "Boost (Speed Up)"]]
                       ELSE [c EXCEPT !.self.boost_stable_count = n]
              ELSE IF s.boost_stable_count > 0
                THEN [c EXCEPT !.self.boost_stable_count = @ - 1,
                               !.self.boost_active = FALSE]
                ELSE [c EXCEPT !.self.boost_active = FALSE]
    IN  [c1 EXCEPT !.controls.boost = c1.self.boost_active]

\* "Update boost stable counter"
hgd_update_boost(c, boost) ==
    LET s == c.self
        n == Min(stable_frames_required, s.boost_stable_count + 1)
        c1 == IF boost
                THEN IF n >= stable_frames_required
                       THEN [self |-> [s EXCEPT !.boost_stable_count = n,
                                                !.boost_active = TRUE],
                             controls |-> [c.controls EXCEPT
                                             !.boost = TRUE,
                                             !.throttle = Unit,
                                             !.gesture_name = "Boost (Speed Up)"]]
                       ELSE [c EXCEPT !.self.boost_stable_count = n]
              ELSE IF s.boost_stable_count > 0
                THEN [c EXCEPT !.self.boost_stable_count = @ - 1]
                ELSE [c EXCEPT !.self.boost_active = FALSE]
    IN  [c1 EXCEPT !.controls.boost = c1.self.boost_active]

\* variant: the stop gesture is checked whatever the brake and boost flags
hgd_check_stop_always(c, landmarks) ==
    IF is_stop_gesture(landmarks)
      THEN [c EXCEPT !.controls.braking = TRUE,
                     !.controls.gesture_name = "Stop (Braking)"]
      ELSE c

\* "If neither braking nor boosting, check for stop gesture"
hgd_check_stop(c, landmarks) ==
    IF ~c.self.braking_active /\ ~c.self.boost_active /\ is_stop_gesture(landmarks)
      THEN [c EXCEPT !.controls.braking = TRUE,
                     !.controls.gesture_name = "Stop (Braking)"]
      ELSE c

\* the landmark reads landmarks[0] .. landmarks[20] raise IndexError
hgd_index_error(landmarks) == Len(landmarks) < 21

\* raw_throttle ** 1.5 of a negative float is complex: min/max raise TypeError
hgd_type_error(landmarks) == hgd_normalized_y(landmarks) < 0

\* HandGestureDetector.detect_gestures: the detector and the record
\* it returns, or the detector as the exception leaves it
hgd_detect_gestures(self, lmlist) ==
    LET c0 == [self |-> self, controls |-> hgd_default_controls]
    IN  IF lmlist = <<>>
          THEN [raised |-> FALSE] @@ hgd_no_hand(c0)
        ELSE LET landmarks == lmlist[1] IN
          IF hgd_index_error(landmarks)
            THEN [raised |-> TRUE] @@ c0
          ELSE IF hgd_type_error(landmarks)
            THEN [raised |-> TRUE] @@ hgd_steering(c0, landmarks)
          ELSE LET c1 == hgd_steering(c0, landmarks)
                   c2 == hgd_throttle(c1, landmarks)
                   c3 == hgd_update_brake(c2, fist_detected(landmarks))
                   c4 == hgd_update_boost(c3, boost_detected(landmarks))
                   c5 == hgd_check_stop(c4, landmarks)
               IN  [raised |-> FALSE] @@ c5

----------------------------------------------------------------------------
(* EnhancedHandGestureDetector                                             *)
(* (src/hand_detector/improved_hand_gesture_detector.py)                   *)

stability_threshold == 3
ehd_steering_smoothing == 5      \* 0.5, in tenths
ehd_throttle_smoothing == 4      \* 0.4, in tenths

\* EnhancedHandGestureDetector.__init__ (last_command None is "None")
ehd_init ==
    [prev_steering |-> 0, prev_throttle |-> 0,
     last_command |-> "None", command_stability_count |-> 0]

\* the default control record of detect_gestures
ehd_default_controls ==
    [steering |-> 0, throttle |-> 0, braking |-> FALSE, boost |-> FALSE,
     gesture_name |-> "No hand detected", speed |-> 0, direction |-> 0]

\* the record returned by the except branch of detect_gestures
ehd_error_controls ==
    [steering |-> 0, throttle |-> 0, braking |-> FALSE, boost |-> FALSE,
     gesture_name |-> "Error", speed |-> 0, direction |-> 0]

\* EnhancedHandGestureDetector._update_command_stability
_update_command_stability(self, command) ==
    IF command = self.last_command
      THEN [self EXCEPT !.command_stability_count = @ + 1]
      ELSE [self EXCEPT !.last_command = command,
                        !.command_stability_count = 1]

\* EnhancedHandGestureDetector.get_stable_command
get_stable_command(self) ==
    IF self.command_stability_count >= stability_threshold
      THEN self.last_command
      ELSE "None"

\* EnhancedHandGestureDetector._detect_stop_sign_gesture
_detect_stop_sign_gesture(landmark_points) ==
    LET wrist == Lm(landmark_points, 0)
        d2(i) == calculate_distance2(Lm(landmark_points, i), wrist)
        \* dist_tip > dist_mcp * 1.2
        finger_extended(tip, mcp) == d2(tip) * 100 > 144 * d2(mcp)
        thumb_extended == d2(4) > d2(2)
        all_fingers_extended ==
            /\ finger_extended(8, 5)
            /\ finger_extended(12, 9)
            /\ finger_extended(16, 13)
            /\ finger_extended(20, 17)
            /\ thumb_extended
        spacing2(a, b) ==
            calculate_distance2(Lm(landmark_points, a), Lm(landmark_points, b))
        finger_spacings == {spacing2(8, 12), spacing2(12, 16), spacing2(16, 20)}
        min_spacing == CHOOSE m \in finger_spacings : \A o \in finger_spacings : m <= o
        max_spacing == CHOOSE m \in finger_spacings : \A o \in finger_spacings : m >= o
        \* max_spacing < min_spacing * 2.0
        fingers_evenly_spaced == max_spacing < 4 * min_spacing
    IN  all_fingers_extended /\ fingers_evenly_spaced

\* raw steering from the angle of the index-MCP -> pinky-MCP vector
ehd_raw_steering(landmark_points) ==
    LET dx == X(Lm(landmark_points, 17)) - X(Lm(landmark_points, 5))
        dy == Y(Lm(landmark_points, 17)) - Y(Lm(landmark_points, 5))
        hand_angle == Atan2Deg(dy, dx)
    IN  IF -135 <= hand_angle /\ hand_angle <= -45
          THEN ((hand_angle + 90) * Unit) \div 45
          ELSE IF hand_angle < -135 THEN -Unit ELSE Unit

\* 1.0 - wrist_y / h, in thousandths
ehd_normalized_y(landmark_points) ==
    Unit - (Y(Lm(landmark_points, 0)) * Unit) \div FrameH

\* smoothing and clamping of the steering value
ehd_steering(c, landmark_points) ==
    LET steering == Max(-Unit, Min(Unit,
                        Smooth(c.self.prev_steering,
                               ehd_raw_steering(landmark_points),
                               ehd_steering_smoothing)))
    IN  [self |-> [c.self EXCEPT !.prev_steering = steering],
         controls |-> [c.controls EXCEPT !.steering = steering]]

\* variant: the throttle value is smoothed but not clamped
ehd_throttle_unclamped(c, landmark_points) ==
    LET throttle == Smooth(c.self.prev_throttle,
                           Pow15(ehd_normalized_y(landmark_points)),
                           ehd_throttle_smoothing)
    IN  [self |-> [c.self EXCEPT !.prev_throttle = throttle],
         controls |-> [c.controls EXCEPT !.throttle = throttle]]

\* smoothing and clamping of the throttle value
ehd_throttle(c, landmark_points) ==
    LET throttle == Max(0, Min(Unit,
                        Smooth(c.self.prev_throttle,
                               Pow15(ehd_normalized_y(landmark_points)),
                               ehd_throttle_smoothing)))
    IN  [self |-> [c.self EXCEPT !.prev_throttle = throttle],
         controls |-> [c.controls EXCEPT !.throttle = throttle]]

\* index_curled ... pinky_curled
ehd_curled(landmark_points, tip, mcp) ==
    Y(Lm(landmark_points, tip)) > Y(Lm(landmark_points, mcp))

\* thumb_tip[1] < wrist[1] - h*0.1
ehd_thumb_extended(landmark_points) ==
    10 * Y(Lm(landmark_points, 4)) < 10 * Y(Lm(landmark_points, 0)) - FrameH

ehd_fist_detected(landmark_points) ==
    /\ ehd_curled(landmark_points, 8, 5)
    /\ ehd_curled(landmark_points, 12, 9)
    /\ ehd_curled(landmark_points, 16, 13)
    /\ ehd_curled(landmark_points, 20, 17)

ehd_all_fingers_extended(landmark_points) ==
    ~ \/ ehd_curled(landmark_points, 8, 5)
      \/ ehd_curled(landmark_points, 12, 9)
      \/ ehd_curled(landmark_points, 16, 13)
      \/ ehd_curled(landmark_points, 20, 17)

boost_gesture(landmark_points) ==
    ehd_thumb_extended(landmark_points) /\ ehd_fist_detected(landmark_points)

brake_gesture(landmark_points) ==
    ehd_fist_detected(landmark_points) /\ ~ehd_thumb_extended(landmark_points)

\* one branch of the classification: the gesture, its control overrides
\* and the command recorded through _update_command_stability
ehd_emit(c, name, braking, boost, throttle, command) ==
    [self |-> _update_command_stability(c.self, command),
     controls |-> [c.controls EXCEPT !.gesture_name = name,
                                     !.braking = braking,
                                     !.boost = boost,
                                     !.throttle = throttle]]

\* variant: the boost branch is tested before the stop-sign branch
ehd_classify_boost_first(c, landmark_points) ==
    LET steering == c.controls.steering
        throttle == c.controls.throttle
    IN  IF boost_gesture(landmark_points)
          THEN ehd_emit(c, "Boost", c.controls.braking, TRUE, Unit, "FORWARD_BOOST")
        ELSE IF _detect_stop_sign_gesture(landmark_points)
          THEN ehd_emit(c, "Stop (Traffic Sign)", TRUE, FALSE, 0, "STOP")
        ELSE IF brake_gesture(landmark_points)
          THEN ehd_emit(c, "Brake", TRUE, c.controls.boost, 0, "STOP")
        ELSE IF ehd_all_fingers_extended(landmark_points)
          THEN ehd_emit(c, "Stop", TRUE, c.controls.boost, 0, "STOP")
        ELSE IF Abs(steering) > 300
          THEN IF steering < -300
                 THEN ehd_emit(c, "Turning Left", c.controls.braking,
                               c.controls.boost, throttle, "LEFT")
                 ELSE ehd_emit(c, "Turning Right", c.controls.braking,
                               c.controls.boost, throttle, "RIGHT")
        ELSE ehd_emit(c, "Forward", c.controls.braking, c.controls.boost,
                      throttle, "FORWARD")

\* variant: the brake branch keeps the smoothed throttle
ehd_classify_brake_keeps_throttle(c, landmark_points) ==
    LET steering == c.controls.steering
        throttle == c.controls.throttle
    IN  IF _detect_stop_sign_gesture(landmark_points)
          THEN ehd_emit(c, "Stop (Traffic Sign)", TRUE, FALSE, 0, "STOP")
        ELSE IF boost_gesture(landmark_points)
          THEN ehd_emit(c, "Boost", c.controls.braking, TRUE, Unit, "FORWARD_BOOST")
        ELSE IF brake_gesture(landmark_points)
          THEN ehd_emit(c, "Brake", TRUE, c.controls.boost, throttle, "STOP")
        ELSE IF ehd_all_fingers_extended(landmark_points)
          THEN ehd_emit(c, "Stop", TRUE, c.controls.boost, 0, "STOP")
        ELSE IF Abs(steering) > 300
          THEN IF steering < -300
                 THEN ehd_emit(c, "Turning Left", c.controls.braking,
                               c.controls.boost, throttle, "LEFT")
                 ELSE ehd_emit(c, "Turning Right", c.controls.braking,
                               c.controls.boost, throttle, "RIGHT")
        ELSE ehd_emit(c, "Forward", c.controls.braking, c.controls.boost,
                      throttle, "FORWARD")

\* "Set control commands based on detected gestures"
ehd_classify(c, landmark_points) ==
    LET steering == c.controls.steering
        throttle == c.controls.throttle
    IN  IF _detect_stop_sign_gesture(landmark_points)
          THEN ehd_emit(c, "Stop (Traffic Sign)", TRUE, FALSE, 0, "STOP")
        ELSE IF boost_gesture(landmark_points)
          THEN ehd_emit(c, "Boost", c.controls.braking, TRUE, Unit, "FORWARD_BOOST")
        ELSE IF brake_gesture(landmark_points)
          THEN ehd_emit(c, "Brake", TRUE, c.controls.boost, 0, "STOP")
        ELSE IF ehd_all_fingers_extended(landmark_points)
          THEN ehd_emit(c, "Stop", TRUE, c.controls.boost, 0, "STOP")
        ELSE IF Abs(steering) > 300
          THEN IF steering < -300
                 THEN ehd_emit(c, "Turning Left", c.controls.braking,
                               c.controls.boost, throttle, "LEFT")
                 ELSE ehd_emit(c, "Turning Right", c.controls.braking,
                               c.controls.boost, throttle, "RIGHT")
        ELSE ehd_emit(c, "Forward", c.controls.braking, c.controls.boost,
                      throttle, "FORWARD")

\* landmark_points[0] .. landmark_points[20] raise IndexError
ehd_index_error(landmark_points) == Len(landmark_points) < 21

\* raw_throttle ** 1.5 of a negative float is complex: min/max raise TypeError
ehd_type_error(landmark_points) == ehd_normalized_y(landmark_points) < 0

\* EnhancedHandGestureDetector._extract_controls_from_landmarks
_extract_controls_from_landmarks(c, landmark_points) ==
    IF ehd_index_error(landmark_points)
      THEN [raised |-> TRUE] @@ c
    ELSE IF ehd_type_error(landmark_points)
      THEN [raised |-> TRUE] @@ ehd_steering(c, landmark_points)
    ELSE [raised |-> FALSE] @@
         ehd_classify(ehd_throttle(ehd_steering(c, landmark_points),
                                   landmark_points),
                      landmark_points)

\* controls['speed'] = controls['throttle']; controls['direction'] = controls['steering']
ehd_compat(ctl) == [ctl EXCEPT !.speed = ctl.throttle, !.direction = ctl.steering]

\* variant: the no-hand branch also forgets the smoothing values
ehd_no_hand_forgets(self) ==
    [self EXCEPT !.command_stability_count = 0,
                 !.prev_steering = 0, !.prev_throttle = 0]

\* the no-hand branch: the stability counter is reset
ehd_no_hand(self) == [self EXCEPT !.command_stability_count = 0]

\* EnhancedHandGestureDetector.detect_gestures, with its except branch
ehd_detect_gestures(self, lmlist) ==
    LET c0 == [self |-> self, controls |-> ehd_default_controls]
    IN  IF lmlist = <<>>
          THEN [failed |-> FALSE,
                self |-> ehd_no_hand(self),
                controls |-> ehd_compat(c0.controls)]
          ELSE LET r == _extract_controls_from_landmarks(c0, lmlist[1])
               IN  IF r.raised
                     THEN [failed |-> TRUE, self |-> r.self,
                           controls |-> ehd_error_controls]
                     ELSE [failed |-> FALSE, self |-> r.self,
                           controls |-> ehd_compat(r.controls)]

----------------------------------------------------------------------------
(* CarController (src/car_control.py).  Times are in milliseconds; a       *)
(* socket is "None" or "open".  The outcome of a system call (socket       *)
(* creation, sendto) is an input of the operation.                         *)

command_timeout == 200          \* 0.2 s

\* the call made by the step just taken (none when the step made none):
\* the method, the command it was given, the value it returned, and
\* whether a command packet left the host during it
NoReturn == [op |-> "none", command |-> "None", value |-> FALSE, sent |-> FALSE]
Return(op, command, value, sent) ==
    [op |-> op, command |-> command, value |-> value, sent |-> sent]

\* the duplicate filter of send_command
too_soon(self, command, current_time) ==
    /\ self.last_command = command
    /\ current_time - self.last_command_time < command_timeout

\* CarController.__init__: in real mode connect() has created the socket,
\* or failed to
cc_init(simulation_mode, socket_ok) ==
    [simulation_mode |-> simulation_mode,
     socket |-> IF ~simulation_mode /\ socket_ok THEN "open" ELSE "None",
     last_command |-> "None",
     last_command_time |-> 0]

\* CarController.connect
cc_connect(self, socket_ok) ==
    [self EXCEPT !.socket = IF socket_ok THEN "open" ELSE "None"]

\* variant: the duplicate filter looks at the time only
cc_send_command_any(self, command, current_time, sendto_ok, socket_ok) ==
    LET accepted == [self EXCEPT !.last_command = command,
                                 !.last_command_time = current_time]
    IN  IF current_time - self.last_command_time < command_timeout
          THEN [self |-> self, ret |-> Return("CarController.send_command", command, FALSE, FALSE)]
        ELSE IF self.simulation_mode
          THEN [self |-> accepted, ret |-> Return("CarController.send_command", command, TRUE, FALSE)]
        ELSE IF self.socket = "None"
          THEN [self |-> self, ret |-> Return("CarController.send_command", command, FALSE, FALSE)]
        ELSE IF sendto_ok
          THEN [self |-> accepted, ret |-> Return("CarController.send_command", command, TRUE, TRUE)]
        ELSE [self |-> cc_connect(self, socket_ok),
              ret |-> Return("CarController.send_command", command, FALSE, FALSE)]

\* CarController.send_command
cc_send_command(self, command, current_time, sendto_ok, socket_ok) ==
    LET accepted == [self EXCEPT !.last_command = command,
                                 !.last_command_time = current_time]
    IN  IF too_soon(self, command, current_time)
          THEN [self |-> self, ret |-> Return("CarController.send_command", command, FALSE, FALSE)]
        ELSE IF self.simulation_mode
          THEN [self |-> accepted, ret |-> Return("CarController.send_command", command, TRUE, FALSE)]
        ELSE IF self.socket = "None"
          THEN [self |-> self, ret |-> Return("CarController.send_command", command, FALSE, FALSE)]
        ELSE IF sendto_ok
          THEN [self |-> accepted, ret |-> Return("CarController.send_command", command, TRUE, TRUE)]
        ELSE [self |-> cc_connect(self, socket_ok),
              ret |-> Return("CarController.send_command", command, FALSE, FALSE)]

----------------------------------------------------------------------------
(* ImprovedCarController (src/hand_detector/Improved_car_controller.py)    *)

max_retries == 3
max_connection_attempts == 5

\* the keys of success_tracking
TrackedCommands ==
    {"FORWARD", "LEFT", "RIGHT", "BACKWARD", "STOP", "FORWARD_BOOST"}

\* commands a caller passes to send_command; "HARD_BRAKE" is not a key of
\* success_tracking
Commands == {"STOP", "FORWARD_BOOST", "HARD_BRAKE"}

\* "Map to closest known command" for the commands of the model
known_command(command) ==
    IF command \in TrackedCommands THEN command
    ELSE IF command = "HARD_BRAKE" THEN "STOP"
    ELSE "STOP"

\* the key of success_tracking a command is counted under
tracked_key(command) == IF command = "FORWARD_BOOST" THEN "FORWARD" ELSE command

no_tracking == [k \in TrackedCommands |-> [success |-> 0, failure |-> 0]]

track(success_tracking, command, outcome_key) ==
    [success_tracking EXCEPT ![tracked_key(command)][outcome_key] = @ + 1]

\* number of sends counted in success_tracking
tracked_total(success_tracking) ==
    LET n(k) == success_tracking[k].success + success_tracking[k].failure
    IN  n("FORWARD") + n("LEFT") + n("RIGHT") + n("BACKWARD") + n("STOP")
      + n("FORWARD_BOOST")

\* variant: connect keeps trying after max_connection_attempts failures
icc_connect_unlimited(self, connect_ok) ==
    IF connect_ok
      THEN [self |-> [self EXCEPT !.socket = "open", !.connected = TRUE,
                                  !.connection_attempts = 0],
            ret |-> Return("connect", "None", TRUE, FALSE)]
    ELSE [self |-> [self EXCEPT !.connection_attempts = @ + 1,
                                !.socket = "None", !.connected = FALSE],
          ret |-> Return("connect", "None", FALSE, FALSE)]

\* ImprovedCarController.connect
icc_connect(self, connect_ok) ==
    IF self.connection_attempts >= max_connection_attempts
      THEN [self |-> self, ret |-> Return("connect", "None", FALSE, FALSE)]
    ELSE IF connect_ok
      THEN [self |-> [self EXCEPT !.socket = "open", !.connected = TRUE,
                                  !.connection_attempts = 0],
            ret |-> Return("connect", "None", TRUE, FALSE)]
    ELSE [self |-> [self EXCEPT !.connection_attempts = @ + 1,
                                !.socket = "None", !.connected = FALSE],
          ret |-> Return("connect", "None", FALSE, FALSE)]

\* ImprovedCarController.__init__: queue entries are [command, puts], puts
\* being the number of times the worker has put the entry back (an
\* observation, not a field of the source); in real mode the constructor
\* has called connect()
icc_init(simulation_mode, connect_ok) ==
    LET fresh == [simulation_mode |-> simulation_mode,
                  socket |-> "None",
                  command_queue |-> <<>>,
                  last_command |-> "None",
                  last_command_time |-> 0,
                  retry_count |-> 0,
                  success_tracking |-> no_tracking,
                  connected |-> FALSE,
                  connection_attempts |-> 0]
    IN  IF simulation_mode THEN fresh ELSE icc_connect(fresh, connect_ok).self

\* ImprovedCarController.send_command
icc_send_command(self, command0, current_time) ==
    LET command == known_command(command0)
        accepted == [self EXCEPT !.last_command = command,
                                 !.last_command_time = current_time]
    IN  IF too_soon(self, command, current_time)
          THEN [self |-> self, ret |-> Return("ImprovedCarController.send_command", command0, FALSE, FALSE)]
        ELSE IF self.simulation_mode
          THEN [self |-> [accepted EXCEPT !.success_tracking =
                                     track(@, command, "success")],
                ret |-> Return("ImprovedCarController.send_command", command0, TRUE, FALSE)]
        ELSE [self |-> [accepted EXCEPT !.command_queue =
                                   Append(@, [command |-> command, puts |-> 0])],
              ret |-> Return("ImprovedCarController.send_command", command0, TRUE, FALSE)]

\* ImprovedCarController._send_command_direct
_send_command_direct(self, command, connect_ok, sendto_ok) ==
    LET c == IF self.socket = "None" \/ ~self.connected
               THEN icc_connect(self, connect_ok)
               ELSE [self |-> self, ret |-> Return("connect", "None", TRUE, FALSE)]
    IN  IF ~c.ret.value
          THEN [self |-> c.self, ret |-> Return("_send_command_direct", command, FALSE, FALSE)]
        ELSE IF sendto_ok
          THEN [self |-> c.self, ret |-> Return("_send_command_direct", command, TRUE, TRUE)]
        ELSE [self |-> [c.self EXCEPT !.connected = FALSE],
              ret |-> Return("_send_command_direct", command, FALSE, FALSE)]

\* the worker thread between two iterations of its loop
worker_idle == [pc |-> "idle", entry |-> [command |-> "None", puts |-> 0]]

\* "Retry logic" of _command_worker for the entry whose send failed
retry(self, entry) ==
    IF self.retry_count < max_retries
      THEN [self EXCEPT !.retry_count = @ + 1,
                        !.command_queue =
                           Append(@, [entry EXCEPT !.puts = @ + 1])]
      ELSE [self EXCEPT !.retry_count = 0]

\* _command_worker from the send to the end of the iteration
_command_worker_send(self, entry, connect_ok, sendto_ok) ==
    LET command == entry.command
        actual_command == IF command = "FORWARD_BOOST" THEN "FORWARD" ELSE command
        d == _send_command_direct(self, actual_command, connect_ok, sendto_ok)
    IN  IF d.ret.value
          THEN [self |-> [d.self EXCEPT !.success_tracking =
                                    track(@, command, "success")],
                ret |-> d.ret]
          ELSE [self |-> retry([d.self EXCEPT !.success_tracking =
                                    track(@, command, "failure")], entry),
                ret |-> d.ret]

\* ImprovedCarController.translate_gesture
translate_gesture(gesture_data) ==
    IF gesture_data.braking THEN "STOP"
    ELSE IF gesture_data.boost THEN "FORWARD_BOOST"
    ELSE IF Abs(gesture_data.steering) > 300
      THEN IF gesture_data.steering < 0 THEN "LEFT" ELSE "RIGHT"
    ELSE IF gesture_data.throttle > 100 THEN "FORWARD"
    ELSE "STOP"

----------------------------------------------------------------------------
(* Car (src/game/car.py).  Speeds, directions and positions are in         *)
(* thousandths; times are in milliseconds.                                 *)

max_speed == 5 * Unit
acceleration == 150             \* 0.15
deceleration == 200             \* 0.2
screen_margin == 50 * Unit
screen_right == 750 * Unit

\* Car.__init__(x, y)
car_init(x) ==
    [x |-> x, speed |-> 0, direction |-> 0,
     boosting |-> FALSE, braking |-> FALSE,
     collision_flash |-> FALSE, collision_time |-> 0,
     brake_start_time |-> 0, boost_start_time |-> 0,
     original_brake_speed |-> 0,
     target_direction |-> 0, target_speed |-> 0]

\* controls['speed'], mapped from the throttle when the key is missing
controls_speed(self, ctl) ==
    IF ~ctl.has_speed THEN (ctl.throttle * max_speed) \div Unit
    ELSE ctl.speed

\* "Apply smoothing for direction changes": direction_smoothing is 0.8
car_direction(self, ctl) ==
    [self EXCEPT !.target_direction = ctl.direction,
                 !.direction = @ + (((ctl.direction - @) * 2) \div 10)]

\* the boost branch
car_boost(self, current_time) ==
    LET s == IF ~self.boosting
               THEN [self EXCEPT !.boosting = TRUE,
                                 !.boost_start_time = current_time]
               ELSE self
    IN  IF current_time - s.boost_start_time < 1000
          THEN [s EXCEPT !.target_speed = max_speed,
                         !.speed = (@ + max_speed) \div 2]
          ELSE [s EXCEPT !.boosting = FALSE]

\* the brake branch: speed = original * (1 - (elapsed / 1.0) ** 0.5)
car_brake(self, current_time) ==
    LET s == IF ~self.braking
               THEN [self EXCEPT !.braking = TRUE,
                                 !.brake_start_time = current_time,
                                 !.original_brake_speed = self.speed]
               ELSE self
        elapsed_time == current_time - s.brake_start_time
    IN  IF elapsed_time >= 1000
          THEN [s EXCEPT !.speed = 0, !.braking = FALSE]
          ELSE [s EXCEPT !.speed =
                   (s.original_brake_speed
                      * (Unit - ISqrt(elapsed_time * Unit))) \div Unit]

\* the regular driving branch
car_drive(self, ctl) ==
    LET target_speed == controls_speed(self, ctl)
        acceleration_factor ==
            (acceleration * (Unit + (self.speed * Unit) \div max_speed)) \div Unit
        speed == IF target_speed > self.speed
                   THEN Min(target_speed, self.speed + acceleration_factor)
                   ELSE Max(target_speed, self.speed - deceleration)
    IN  [self EXCEPT !.target_speed = target_speed,
                     !.speed = Max(0, Min(max_speed, speed))]

\* variant: the brake branch is entered also while boosting
car_effects_brake_while_boosting(self, ctl, current_time) ==
    IF ctl.boost /\ ~self.braking THEN car_boost(self, current_time)
    ELSE IF ctl.braking THEN car_brake(self, current_time)
    ELSE IF ~self.boosting /\ ~self.braking THEN car_drive(self, ctl)
    ELSE self

\* the if / elif chain of boost, brake and regular driving
car_effects(self, ctl, current_time) ==
    IF ctl.boost /\ ~self.braking THEN car_boost(self, current_time)
    ELSE IF ctl.braking /\ ~self.boosting THEN car_brake(self, current_time)
    ELSE IF ~self.boosting /\ ~self.braking THEN car_drive(self, ctl)
    ELSE self

\* variant: the position is not kept inside the screen
car_move_unbounded(self) ==
    IF self.speed > 0
      THEN LET effective_direction ==
                   (self.direction
                      * (Unit - ((((self.speed * Unit) \div max_speed) * 3) \div 10)))
                   \div Unit
               turn_scale == 2 * Unit + (self.speed \div 2)
           IN  [self EXCEPT !.x = @ + (effective_direction * turn_scale) \div Unit]
      ELSE self

\* the position update and the screen boundaries
car_move(self) ==
    LET moved ==
          IF self.speed > 0
            THEN LET effective_direction ==
                         (self.direction
                            * (Unit - ((((self.speed * Unit) \div max_speed) * 3) \div 10)))
                         \div Unit
                     turn_scale == 2 * Unit + (self.speed \div 2)
                 IN  [self EXCEPT !.x = @ + (effective_direction * turn_scale) \div Unit]
            ELSE self
    IN  IF moved.x < screen_margin
          THEN [moved EXCEPT !.x = screen_margin, !.direction = @ \div 2]
        ELSE IF moved.x > screen_right
          THEN [moved EXCEPT !.x = screen_right, !.direction = @ \div 2]
        ELSE moved

\* "Handle collision flash"
car_flash(self, current_time) ==
    IF self.collision_flash /\ current_time - self.collision_time > 300
      THEN [self EXCEPT !.collision_flash = FALSE]
      ELSE self

\* Car.update
car_update(self, ctl, current_time) ==
    car_flash(car_move(car_effects(car_direction(self, ctl), ctl, current_time)),
              current_time)

\* Car.collide_with for a rectangle that does (hit) or does not intersect
\* the car's rectangle
car_collide_with(self, hit, current_time) ==
    IF hit
      THEN [self EXCEPT !.collision_flash = TRUE,
                        !.collision_time = current_time,
                        !.speed = Max(0, (@ * 8) \div 10)]
      ELSE self

\* control records handed to Car.update: a driving record without the
\* 'speed' key, a boost record, a brake record, a record with both flags
\* and out-of-range values, and a record with negative out-of-range values
DriveControls ==
    [has_speed |-> FALSE, speed |-> 0, throttle |-> 800, direction |-> -Unit,
     boost |-> FALSE, braking |-> FALSE]
BoostControls ==
    [has_speed |-> TRUE, speed |-> Unit, throttle |-> Unit, direction |-> Unit,
     boost |-> TRUE, braking |-> FALSE]
BrakeControls ==
    [has_speed |-> TRUE, speed |-> 0, throttle |-> 0, direction |-> 0,
     boost |-> FALSE, braking |-> TRUE]
BothControls ==
    [has_speed |-> TRUE, speed |-> 9 * Unit, throttle |-> Unit,
     direction |-> 40 * Unit, boost |-> TRUE, braking |-> TRUE]
WildControls ==
    [has_speed |-> TRUE, speed |-> -2 * Unit, throttle |-> 0,
     direction |-> -40 * Unit, boost |-> FALSE, braking |-> FALSE]
CarControls ==
    {DriveControls, BoostControls, BrakeControls, BothControls, WildControls}

\* time between two calls on the car
CarClockSteps == {500, 1000}

\* horizontal positions a car is created at: the two margins and the centre
CarStartX == {screen_margin, 400 * Unit, screen_right}

----------------------------------------------------------------------------
(* CameraManager (src/game/camera_manager.py).  A camera is the device     *)
(* index it was opened with.                                               *)

max_cameras == 2

\* the subsequences of <<0, ..., max_cameras - 1>>: what
\* _find_available_cameras can return
CameraLists == {<<>>, <<0>>, <<1>>, <<0, 1>>}

\* CameraManager.__init__
cam_init(available_cameras) ==
    [cameras |-> <<>>, active_camera_index |-> 0,
     available_cameras |-> available_cameras]

\* the cameras of a list that are in the set opened, in order
RECURSIVE OpenedOf(_, _)
OpenedOf(list, opened) ==
    IF list = <<>> THEN <<>>
    ELSE (IF Head(list) \in opened THEN <<Head(list)>> ELSE <<>>)
         \o OpenedOf(Tail(list), opened)

\* CameraManager.initialize_cameras; opened: the devices for which
\* cv2.VideoCapture(cam_index).isOpened() is true
initialize_cameras(self, opened) ==
    LET cameras == OpenedOf(self.available_cameras, opened)
        success == cameras # <<>>
    IN  [self |-> [self EXCEPT !.cameras = cameras,
                               !.active_camera_index =
                                   IF success THEN 0 ELSE @],
         ret |-> [op |-> "initialize_cameras", value |-> success, index |-> 0]]

\* variant: switch_camera steps past the end of the list
switch_camera_past_end(self) ==
    LET index == IF Len(self.cameras) > 1
                   THEN self.active_camera_index + 1
                   ELSE self.active_camera_index
    IN  [self |-> [self EXCEPT !.active_camera_index = index],
         ret |-> [op |-> "switch_camera", value |-> TRUE, index |-> index]]

\* CameraManager.switch_camera
switch_camera(self) ==
    LET index == IF Len(self.cameras) > 1
                   THEN (self.active_camera_index + 1) % Len(self.cameras)
                   ELSE self.active_camera_index
    IN  [self |-> [self EXCEPT !.active_camera_index = index],
         ret |-> [op |-> "switch_camera", value |-> TRUE, index |-> index]]

\* CameraManager.set_active_camera
set_active_camera(self, index) ==
    IF 0 <= index /\ index < Len(self.cameras)
      THEN [self |-> [self EXCEPT !.active_camera_index = index],
            ret |-> [op |-> "set_active_camera", value |-> TRUE, index |-> index]]
      ELSE [self |-> self,
            ret |-> [op |-> "set_active_camera", value |-> FALSE, index |-> index]]

\* CameraManager.get_frame: (False, None) without cameras, IndexError when
\* the active index is outside the list, else the result of read() on the
\* active camera (index: the device that was read)
get_frame(self, read_ok) ==
    IF self.cameras = <<>>
      THEN [self |-> self,
            ret |-> [op |-> "get_frame", value |-> FALSE, index |-> -1]]
    ELSE IF self.active_camera_index >= Len(self.cameras)
      THEN [self |-> self,
            ret |-> [op |-> "IndexError", value |-> FALSE, index |-> -1]]
    ELSE [self |-> self,
          ret |-> [op |-> "get_frame", value |-> read_ok,
                   index |-> self.cameras[self.active_camera_index + 1]]]

\* CameraManager.release_all
release_all(self) ==
    [self |-> [self EXCEPT !.cameras = <<>>],
     ret |-> [op |-> "release_all", value |-> TRUE, index |-> 0]]

----------------------------------------------------------------------------
(* Observation of the input sequence of HandGestureDetector.detect_gestures *)

\* the last call computed the gesture predicates of a hand
Evaluated == outcome = "returned" /\ landmarks_list # <<>>

\* a run of consecutive ticks on which a raw predicate was computed true:
\* its length, the counter and flag when it started, whether the tick
\* before it computed the predicate false, and, on the tick that ends a
\* run with a false predicate, the length of the run that ended
NoRun ==
    [run |-> 0, start_count |-> 0, start_active |-> FALSE,
     start_after_false |-> FALSE, ended_run |-> 0]

RunStep(r, evaluated, pred, prev_false, count, active) ==
    IF evaluated /\ pred
      THEN IF r.run = 0
             THEN [run |-> 1, start_count |-> count, start_active |-> active,
                   start_after_false |-> prev_false, ended_run |-> 0]
             ELSE [r EXCEPT !.run = Min(MaxRun, @ + 1)]
    ELSE IF evaluated
      THEN [r EXCEPT !.run = 0, !.ended_run = r.run]
    ELSE NoRun

\* number of consecutive fist-false hand ticks since brake was active with
\* its counter at the threshold (0: not in such a run)
DecayStep(d, evaluated, fist, self) ==
    IF evaluated /\ ~fist
      THEN IF self.braking_active /\ self.brake_stable_count = stable_frames_required
             THEN 1
           ELSE IF d > 0 THEN Min(MaxRun, d + 1)
           ELSE 0
      ELSE 0

hist_init == [fist |-> NoRun, boost |-> NoRun, brake_decay |-> 0]

HistStep(h, self, lmlist, raised) ==
    LET evaluated == lmlist # <<>> /\ ~raised
        fist  == evaluated /\ fist_detected(lmlist[1])
        boost == evaluated /\ boost_detected(lmlist[1])
        prev_fist_false  == Evaluated /\ ~fist_detected(landmarks_list[1])
        prev_boost_false == Evaluated /\ ~boost_detected(landmarks_list[1])
    IN  [fist  |-> RunStep(h.fist, evaluated, fist, prev_fist_false,
                           self.brake_stable_count, self.braking_active),
         boost |-> RunStep(h.boost, evaluated, boost, prev_boost_false,
                           self.boost_stable_count, self.boost_active),
         brake_decay |-> DecayStep(h.brake_decay, evaluated, fist, self)]

----------------------------------------------------------------------------
(* Observation of the command labels of EnhancedHandGestureDetector        *)

\* the command label the classification of a hand passes to
\* _update_command_stability
ehd_command(self, landmark_points) ==
    _extract_controls_from_landmarks(
        [self |-> self, controls |-> ehd_default_controls],
        landmark_points).self.last_command

\* label: the command of the last tick that classified a hand; run: the
\* number of consecutive ticks, ending with the last one, that each saw a
\* hand and produced that label (0 after a no-hand tick or a failed tick)
ehist_init == [label |-> "None", run |-> 0]

EHistStep(e, self, lmlist, failed) ==
    IF lmlist = <<>> \/ failed
      THEN [label |-> "None", run |-> 0]
      ELSE LET command == ehd_command(self, lmlist[1])
           IN  IF e.run > 0 /\ e.label = command
                 THEN [e EXCEPT !.run = Min(MaxRun, @ + 1)]
                 ELSE [label |-> command, run |-> 1]

----------------------------------------------------------------------------
(* State machine                                                           *)

NoRecord == [gesture_name |-> "(none)"]

Init ==
    /\ hgd = hgd_init
    /\ ehd = ehd_init
    /\ landmarks_list = <<>>
    /\ outcome = "none"
    /\ controls = NoRecord
    /\ hist = hist_init
    /\ ehist = ehist_init
    /\ ticks = [hgd |-> 0, ehd |-> 0]
    /\ cc = cc_init(TRUE, FALSE)
    /\ icc = icc_init(TRUE, FALSE)
    /\ worker = worker_idle
    /\ now = 0
    /\ ret = NoReturn
    /\ car = car_init(400 * Unit)
    /\ cam = cam_init(<<>>)

\* the variables of the controllers, the car and the camera manager
other_vars == <<cc, icc, worker, now, ret, car, cam>>

\* one tick of the game loop with HandGestureDetector
detect_gestures(lmlist) ==
    LET r == hgd_detect_gestures(hgd, lmlist)
    IN  /\ hgd' = r.self
        /\ landmarks_list' = lmlist
        /\ outcome' = IF r.raised THEN "raised" ELSE "returned"
        /\ controls' = IF r.raised THEN NoRecord ELSE r.controls
        /\ hist' = HistStep(hist, hgd, lmlist, r.raised)
        /\ UNCHANGED <<ehd, ehist>>

\* one tick of the main loop with EnhancedHandGestureDetector
enhanced_detect_gestures(lmlist) ==
    LET r == ehd_detect_gestures(ehd, lmlist)
    IN  /\ r.self.command_stability_count <= MaxStability
        /\ ehd' = r.self
        /\ landmarks_list' = lmlist
        /\ outcome' = IF r.failed THEN "failed" ELSE "returned"
        /\ controls' = r.controls
        /\ ehist' = EHistStep(ehist, ehd, lmlist, r.failed)
        /\ UNCHANGED <<hgd, hist>>

\* the game of start_game.py: any frame on any tick
Next ==
    \E lmlist \in Frames :
        detect_gestures(lmlist) /\ UNCHANGED <<ticks, other_vars>>

Spec == Init /\ [][Next]_vars

\* the main loop of main.py: any frame on any tick
NextEnhanced ==
    \E lmlist \in Frames :
        enhanced_detect_gestures(lmlist) /\ UNCHANGED <<ticks, other_vars>>

SpecEnhanced == Init /\ [][NextEnhanced]_vars

\* a counted tick of either detector, while fewer than budget were made
counted_detect_gestures(lmlist, budget) ==
    /\ ticks.hgd + ticks.ehd < budget
    /\ detect_gestures(lmlist)
    /\ ticks' = [ticks EXCEPT !.hgd = @ + 1]
    /\ UNCHANGED other_vars

counted_enhanced_detect_gestures(lmlist, budget) ==
    /\ ticks.hgd + ticks.ehd < budget
    /\ enhanced_detect_gestures(lmlist)
    /\ ticks' = [ticks EXCEPT !.ehd = @ + 1]
    /\ UNCHANGED other_vars

\* clips of at most MaxClip frames with hands at different heights and
\* angles, fed to either detector
NextClip ==
    \E lmlist \in ClipFrames :
        \/ counted_detect_gestures(lmlist, MaxClip)
        \/ counted_enhanced_detect_gestures(lmlist, MaxClip)

SpecClip == Init /\ [][NextClip]_vars

\* clips of at most MaxClip frames of driving hands, fed to the Enhanced
\* detector
NextDrive ==
    \E lmlist \in DriveFrames : counted_enhanced_detect_gestures(lmlist, MaxClip)

SpecDrive == Init /\ [][NextDrive]_vars

\* the detector, car and camera variables at their constructed values
detectors_init ==
    /\ hgd = hgd_init
    /\ ehd = ehd_init
    /\ landmarks_list = <<>>
    /\ outcome = "none"
    /\ controls = NoRecord
    /\ hist = hist_init
    /\ ehist = ehist_init
    /\ ticks = [hgd |-> 0, ehd |-> 0]

detector_vars == <<hgd, ehd, landmarks_list, outcome, controls, hist, ehist, ticks>>

\* a controller on which no method has been called: a program uses one
\* of the two controller classes, the other one is never called
cc_unused == cc = cc_init(TRUE, FALSE)
icc_unused == icc = icc_init(TRUE, FALSE)

\* one of the controllers after construction, in simulation mode or in
\* real mode with a first connect() that succeeded or failed; time.time()
\* is well past the epoch
InitControl ==
    /\ detectors_init
    /\ \E simulation_mode \in BOOLEAN, ok \in BOOLEAN :
          \/ cc = cc_init(simulation_mode, ok) /\ icc_unused
          \/ icc = icc_init(simulation_mode, ok) /\ cc_unused
    /\ worker = worker_idle
    /\ now = command_timeout
    /\ ret = NoReturn
    /\ car = car_init(400 * Unit)
    /\ cam = cam_init(<<>>)

\* time between two calls on a controller
SendClockSteps == {100, 200}

time_passes ==
    \E dt \in SendClockSteps :
        /\ now + dt <= MaxSendTime
        /\ now' = now + dt
        /\ ret' = NoReturn
        /\ UNCHANGED <<detector_vars, cc, icc, worker, car, cam>>

\* the main loop calls CarController.send_command
send_command(command) ==
    \E sendto_ok \in BOOLEAN, socket_ok \in BOOLEAN :
        LET r == cc_send_command(cc, command, now, sendto_ok, socket_ok)
        IN  /\ icc_unused
            /\ cc' = r.self
            /\ ret' = r.ret
            /\ UNCHANGED <<detector_vars, icc, worker, now, car, cam>>

\* the main loop calls ImprovedCarController.send_command
improved_send_command(command) ==
    LET r == icc_send_command(icc, command, now)
    IN  /\ cc_unused
        /\ Len(r.self.command_queue) <= MaxQueue
        /\ tracked_total(r.self.success_tracking) <= MaxTracked
        /\ icc' = r.self
        /\ ret' = r.ret
        /\ UNCHANGED <<detector_vars, cc, worker, now, car, cam>>

\* the worker thread takes the next command from the queue
worker_get ==
    /\ ~icc.simulation_mode
    /\ worker.pc = "idle"
    /\ icc.command_queue # <<>>
    /\ worker' = [pc |-> "sending", entry |-> Head(icc.command_queue)]
    /\ icc' = [icc EXCEPT !.command_queue = Tail(@)]
    /\ ret' = NoReturn
    /\ UNCHANGED <<detector_vars, cc, now, car, cam>>

\* the worker thread sends the command it holds and finishes the iteration
worker_send ==
    /\ worker.pc = "sending"
    /\ tracked_total(icc.success_tracking) < MaxTracked
    /\ \E connect_ok \in BOOLEAN, sendto_ok \in BOOLEAN :
          LET r == _command_worker_send(icc, worker.entry, connect_ok, sendto_ok)
          IN  /\ icc' = r.self
              /\ ret' = r.ret
    /\ worker' = worker_idle
    /\ UNCHANGED <<detector_vars, cc, now, car, cam>>

NextControl ==
    \/ time_passes
    \/ \E command \in Commands : send_command(command)
    \/ \E command \in Commands : improved_send_command(command)
    \/ worker_get
    \/ worker_send

SpecControl == InitControl /\ [][NextControl]_vars

\* a car created at one of the start positions, before the first tick;
\* pygame.time.get_ticks() is in now
InitCar ==
    /\ detectors_init
    /\ cc_unused
    /\ icc_unused
    /\ worker = worker_idle
    /\ now = 0
    /\ ret = NoReturn
    /\ \E x \in CarStartX : car = car_init(x)
    /\ cam = cam_init(<<>>)

\* the game loop calls Car.update with a control record
update(ctl) ==
    \E dt \in CarClockSteps :
        /\ now + dt <= MaxCarTime
        /\ now' = now + dt
        /\ car' = car_update(car, ctl, now')
        /\ ret' = [op |-> "update", controls |-> ctl]
        /\ UNCHANGED <<detector_vars, cc, icc, worker, cam>>

\* the game loop calls Car.collide_with with an obstacle's rectangle
collide_with(hit) ==
    \E dt \in CarClockSteps :
        /\ now + dt <= MaxCarTime
        /\ now' = now + dt
        /\ car' = car_collide_with(car, hit, now')
        /\ ret' = [op |-> "collide_with", value |-> hit]
        /\ UNCHANGED <<detector_vars, cc, icc, worker, cam>>

NextCar ==
    \/ \E ctl \in CarControls : update(ctl)
    \/ \E hit \in BOOLEAN : collide_with(hit)

SpecCar == InitCar /\ [][NextCar]_vars

\* indexes handed to set_active_camera
CameraIndexes == -2 .. max_cameras + 1

\* a CameraManager after construction, for every result of
\* _find_available_cameras
InitCamera ==
    /\ detectors_init
    /\ cc_unused
    /\ icc_unused
    /\ worker = worker_idle
    /\ now = 0
    /\ ret = [op |-> "none", value |-> FALSE, index |-> 0]
    /\ car = car_init(400 * Unit)
    /\ \E available_cameras \in CameraLists : cam = cam_init(available_cameras)

\* a call of a CameraManager method that gave the result r
camera_call(r) ==
    /\ cam' = r.self
    /\ ret' = r.ret
    /\ UNCHANGED <<detector_vars, cc, icc, worker, now, car>>

call_initialize_cameras ==
    \E opened \in SUBSET (0 .. max_cameras - 1) :
        camera_call(initialize_cameras(cam, opened))

call_switch_camera == camera_call(switch_camera(cam))

call_set_active_camera ==
    \E index \in CameraIndexes : camera_call(set_active_camera(cam, index))

call_get_frame ==
    \E read_ok \in BOOLEAN : camera_call(get_frame(cam, read_ok))

call_release_all == camera_call(release_all(cam))

NextCamera ==
    \/ call_initialize_cameras
    \/ call_switch_camera
    \/ call_set_active_camera
    \/ call_get_frame
    \/ call_release_all

SpecCamera == InitCamera /\ [][NextCamera]_vars

\* smoothing values a detector can hold when a hand comes to rest
SteadyStartSteering == {-Unit, -(Unit \div 2), 0, Unit \div 2, Unit}
SteadyStartThrottle == {0, Unit \div 2, Unit}

\* one unchanging hand in front of the camera, from any smoothing values
InitSteady ==
    /\ \E s \in SteadyStartSteering, t \in SteadyStartThrottle :
          /\ hgd = [hgd_init EXCEPT !.prev_steering = s, !.prev_throttle = t]
          /\ ehd = [ehd_init EXCEPT !.prev_steering = s, !.prev_throttle = t]
    /\ landmarks_list \in {<<h>> : h \in SteadyHands}
    /\ outcome = "none"
    /\ controls = NoRecord
    /\ hist = hist_init
    /\ ehist = ehist_init
    /\ ticks = [hgd |-> 0, ehd |-> 0]
    /\ cc = cc_init(TRUE, FALSE)
    /\ icc = icc_init(TRUE, FALSE)
    /\ worker = worker_idle
    /\ now = 0
    /\ ret = NoReturn
    /\ car = car_init(400 * Unit)
    /\ cam = cam_init(<<>>)

\* the same landmarks on every tick, fed to either detector
NextSteady ==
    \/ counted_detect_gestures(landmarks_list, MaxSteady)
    \/ counted_enhanced_detect_gestures(landmarks_list, MaxSteady)

SpecSteady == InitSteady /\ [][NextSteady]_vars

----------------------------------------------------------------------------
(* Properties of HandGestureDetector.detect_gestures (Spec)                *)

\* the hand of the last tick, when its gesture predicates were computed
Hand == landmarks_list[1]

\* a run of exactly stable_frames_required - 1 predicate-true ticks has
\* just been ended by a predicate-false tick
RunOfTwoEnded(r) == r.ended_run = stable_frames_required - 1

\* C1 (as stated): from a state where the gesture is inactive, a run of
\* exactly stable_frames_required - 1 consecutive predicate-true ticks,
\* preceded and followed by a predicate-false tick, never makes the gesture
\* active.
C1_Original ==
    /\ (RunOfTwoEnded(hist.fist) /\ hist.fist.start_after_false
            /\ ~hist.fist.start_active)
         => ~hgd.braking_active
    /\ (RunOfTwoEnded(hist.boost) /\ hist.boost.start_after_false
            /\ ~hist.boost.start_active)
         => ~hgd.boost_active

\* C1 (amended): from a state where the gesture is inactive and its counter
\* is 0, a run of at most stable_frames_required - 1 consecutive
\* predicate-true ticks, and the predicate-false tick that ends it, never
\* make braking_active (resp. boost_active) true.
C1_DebounceFromZero ==
    /\ (/\ hist.fist.run \in 1..(stable_frames_required - 1)
              \/ RunOfTwoEnded(hist.fist)
        /\ hist.fist.start_count = 0
        /\ ~hist.fist.start_active)
         => ~hgd.braking_active
    /\ (/\ hist.boost.run \in 1..(stable_frames_required - 1)
              \/ RunOfTwoEnded(hist.boost)
        /\ hist.boost.start_count = 0
        /\ ~hist.boost.start_active)
         => ~hgd.boost_active

C1_Witness ==
    /\ RunOfTwoEnded(hist.fist)
    /\ hist.fist.start_after_false
    /\ hist.fist.start_count = 0
    /\ ~hist.fist.start_active
    /\ hgd.brake_stable_count = 1

\* C2: when the raw predicate of brake (resp. boost) has been true on
\* stable_frames_required consecutive hand-detected ticks, the gesture is
\* active on that tick and the returned controls report it.
C2_ActivatesOnNth ==
    /\ hist.fist.run >= stable_frames_required
         => hgd.braking_active /\ controls.braking
    /\ hist.boost.run >= stable_frames_required
         => hgd.boost_active /\ controls.boost

C2_Witness ==
    /\ hist.fist.run = stable_frames_required
    /\ hist.fist.start_count = 0
    /\ ~hist.fist.start_active
    /\ controls.braking

\* C3 (as stated): after brake was active with its counter at the threshold,
\* controls['braking'] stays true on the first threshold - 1 consecutive
\* fist-false hand ticks and is false from the tick after that.
C3_Original ==
    /\ hist.brake_decay \in 1..(stable_frames_required - 1) => controls.braking
    /\ hist.brake_decay >= stable_frames_required => ~controls.braking

\* C4 (as stated): after every tick, a counter equal to 0 implies that the
\* gesture's active flag is false.
C4_Original ==
    outcome # "none" =>
        /\ hgd.brake_stable_count = 0 => ~hgd.braking_active
        /\ hgd.boost_stable_count = 0 => ~hgd.boost_active

\* a tick of detect_gestures that returned a record
Returned == outcome' = "returned"

\* C5: a counter at the threshold implies the active flag, and a tick that
\* leaves a counter strictly between 0 and the threshold leaves the flag as
\* it was.
C5_ThresholdAndLatch ==
    /\ [](/\ hgd.brake_stable_count = stable_frames_required => hgd.braking_active
          /\ hgd.boost_stable_count = stable_frames_required => hgd.boost_active)
    /\ [][Returned =>
            /\ hgd'.brake_stable_count \in 1..(stable_frames_required - 1)
                 => hgd'.braking_active = hgd.braking_active
            /\ hgd'.boost_stable_count \in 1..(stable_frames_required - 1)
                 => hgd'.boost_active = hgd.boost_active]_vars

C5_Witness ==
    /\ hgd.boost_active
    /\ hgd.boost_stable_count = stable_frames_required - 1
    /\ hist.boost.ended_run >= stable_frames_required
    /\ controls.boost

C7_CounterRange ==
    /\ [](/\ hgd.brake_stable_count \in 0..stable_frames_required
          /\ hgd.boost_stable_count \in 0..stable_frames_required)
    /\ [][(Returned /\ landmarks_list' # <<>>) =>
            /\ hgd'.brake_stable_count =
                 IF fist_detected(landmarks_list'[1])
                   THEN Min(stable_frames_required, hgd.brake_stable_count + 1)
                   ELSE Max(0, hgd.brake_stable_count - 1)
            /\ hgd'.boost_stable_count =
                 IF boost_detected(landmarks_list'[1])
                   THEN Min(stable_frames_required, hgd.boost_stable_count + 1)
                   ELSE Max(0, hgd.boost_stable_count - 1)]_vars

C7_Witness ==
    /\ hist.fist.run = MaxRun
    /\ hgd.brake_stable_count = stable_frames_required
    /\ hgd.boost_stable_count = 0
    /\ hist.boost.ended_run = 0

C10_Original ==
    outcome = "returned" => ~(controls.braking /\ controls.boost)

\* C11 (as stated): every record returned with boost=True has throttle 1.0,
\* also on the ticks where boost is latched while its predicate is false.
C11_Original ==
    (outcome = "returned" /\ controls.boost) => controls.throttle = Unit

\* C15 (as stated): no exception propagates out of detect_gestures, whatever
\* the landmark input.
C15_Original == outcome # "raised"

\* C18 (as stated): gesture_name is 'No hand detected' only on ticks where no
\* hand was detected; every hand tick names one of the gesture kinds.
C18_Original ==
    outcome = "returned" =>
        (controls.gesture_name = "No hand detected" <=> landmarks_list = <<>>)

----------------------------------------------------------------------------
(* Properties of EnhancedHandGestureDetector (SpecEnhanced)                *)

\* the classification of the last tick was reached with a hand
Classified == outcome = "returned" /\ landmarks_list # <<>>

\* C8: whenever the stop-sign predicate holds on a classified tick, the
\* emitted gesture is the stop-sign gesture with braking, zero throttle, no
\* boost and command STOP, whatever boost_gesture and brake_gesture are.
C8_StopSignFirst ==
    (Classified /\ _detect_stop_sign_gesture(Hand)) =>
        /\ controls.gesture_name = "Stop (Traffic Sign)"
        /\ controls.braking
        /\ controls.throttle = 0
        /\ ~controls.boost
        /\ ehd.last_command = "STOP"
        /\ ehd.command_stability_count >= 1

C8_Witness ==
    /\ Classified
    /\ _detect_stop_sign_gesture(Hand)
    /\ boost_gesture(Hand)
    /\ ehd_fist_detected(Hand)
    /\ controls.gesture_name = "Stop (Traffic Sign)"

\* the last call of the Enhanced detector returned a record
\* (from the try block, or the 'Error' record of the except block)
EnhancedReturned == outcome \in {"returned", "failed"}

\* C12: a record with braking=True has throttle 0.0 and boost False; a
\* record with boost=True has throttle 1.0 and braking False.
C12_BrakeBoostOverrides ==
    EnhancedReturned =>
        /\ controls.braking => (controls.throttle = 0 /\ ~controls.boost)
        /\ controls.boost => (controls.throttle = Unit /\ ~controls.braking)

C12_Witness ==
    /\ Classified
    /\ controls.gesture_name = "Brake"
    /\ controls.braking
    /\ controls.throttle = 0
    /\ ehd.prev_throttle > 0

\* C16 (as stated): a failed tick returns the previous tick's smoothed
\* steering and throttle with a no-hand/neutral label, and leaves the
\* smoothing state as it was before the tick.
C16_Original ==
    [][outcome' = "failed" =>
          /\ controls'.steering = ehd.prev_steering
          /\ controls'.throttle = ehd.prev_throttle
          /\ controls'.gesture_name \in {"No hand detected", "Error"}
          /\ ehd'.prev_steering = ehd.prev_steering
          /\ ehd'.prev_throttle = ehd.prev_throttle]_vars

\* C17 (as stated): a hand with fewer than 21 landmarks is handled like no
\* hand: the no-hand record is returned and the stability counter is reset.
C17_Original ==
    (landmarks_list # <<>> /\ Len(Hand) < 21) =>
        /\ outcome = "returned"
        /\ controls.gesture_name = "No hand detected"
        /\ ehd.command_stability_count = 0

\* C19 (as stated): on every tick where a stop gesture is emitted the record
\* has steering 0, throttle 0.0 and braking True.
C19_Original ==
    (Classified /\ controls.gesture_name \in {"Stop (Traffic Sign)", "Stop"}) =>
        /\ controls.steering = 0
        /\ controls.throttle = 0
        /\ controls.braking


\* C13 (as claimed): get_stable_command returns a command c other than
\* None only if each of the last stability_threshold ticks saw a hand and
\* produced the label c; after a tick with a different label, or a tick
\* without a label, nothing is returned until the label has been
\* produced stability_threshold times in a row again.
C13_Original ==
    get_stable_command(ehd) # "None" =>
        /\ ehist.run >= stability_threshold
        /\ ehist.label = get_stable_command(ehd)

----------------------------------------------------------------------------
(* Properties of both detectors on clips of varied frames (SpecClip)       *)

InRange(steering, throttle) ==
    /\ -Unit <= steering /\ steering <= Unit
    /\ 0 <= throttle /\ throttle <= Unit

\* the last tick returned the record of a hand that lies inside the frame
InFrameRecord ==
    /\ outcome = "returned"
    /\ landmarks_list # <<>>
    /\ InFrame(landmarks_list[1])

\* C14: after any sequence of hand and no-hand ticks, the record either
\* detector returns for a hand whose 21 landmarks lie inside the frame has
\* steering in [-1, 1] and throttle in [0, 1], and the stored prev_steering
\* and prev_throttle of both detectors stay in these ranges.
C14_RangeInvariant ==
    /\ InFrameRecord => InRange(controls.steering, controls.throttle)
    /\ InRange(hgd.prev_steering, hgd.prev_throttle)
    /\ InRange(ehd.prev_steering, ehd.prev_throttle)

\* HandGestureDetector returns a record with steering to the left for the
\* in-frame hand TiltedLow while its stored throttle is still high from two
\* frames with the wrist above the frame (raw throttle clamped to 1.0)
C14_Witness ==
    /\ InFrameRecord
    /\ ticks.hgd >= 3
    /\ landmarks_list[1] = TiltedLow
    /\ controls.steering < 0
    /\ controls.steering = hgd.prev_steering
    /\ 3 * hgd.prev_throttle > Unit

----------------------------------------------------------------------------
(* Properties of the smoothing on an unchanging hand (SpecSteady)          *)

Eps == Unit \div 50

\* the raw values of the hand in front of the camera
SteadyHand == landmarks_list[1]

\* one smoothing step towards raw: raw is a fixed point, and the distance
\* to raw shrinks by alpha (tenths), up to one unit of rounding
Contracts(previous, next, raw, alpha) ==
    /\ previous = raw => next = raw
    /\ 10 * Abs(next - raw) <= alpha * Abs(previous - raw) + 10

\* C20: with the same in-frame hand on every tick, the raw steering and
\* throttle are a fixed point of the smoothing update, every tick shrinks
\* the distance of the smoothed values to the raw values by the factor
\* alpha (0.5 / 0.4 in EnhancedHandGestureDetector, 0.6 / 0.5 in
\* HandGestureDetector), and after MaxSteady ticks the smoothed values
\* are within Eps of the raw values.
C20_SmoothingConverges ==
    /\ [][/\ ticks'.hgd > ticks.hgd =>
               /\ Contracts(hgd.prev_steering, hgd'.prev_steering,
                            hgd_raw_steering(SteadyHand), hgd_steering_smoothing)
               /\ Contracts(hgd.prev_throttle, hgd'.prev_throttle,
                            hgd_raw_throttle(SteadyHand), hgd_throttle_smoothing)
          /\ ticks'.ehd > ticks.ehd =>
               /\ Contracts(ehd.prev_steering, ehd'.prev_steering,
                            ehd_raw_steering(SteadyHand), ehd_steering_smoothing)
               /\ Contracts(ehd.prev_throttle, ehd'.prev_throttle,
                            Pow15(ehd_normalized_y(SteadyHand)),
                            ehd_throttle_smoothing)]_vars
    /\ [](ticks.hgd >= MaxSteady =>
               /\ Abs(hgd.prev_steering - hgd_raw_steering(SteadyHand)) <= Eps
               /\ Abs(hgd.prev_throttle - hgd_raw_throttle(SteadyHand)) <= Eps)
    /\ [](ticks.ehd >= MaxSteady =>
               /\ Abs(ehd.prev_steering - ehd_raw_steering(SteadyHand)) <= Eps
               /\ Abs(ehd.prev_throttle - Pow15(ehd_normalized_y(SteadyHand))) <= Eps)

\* the Enhanced detector has been fed the hand TiltedHigh MaxSteady times
\* and both of its smoothed values are within Eps of the raw values
C20_Witness ==
    /\ ticks.ehd >= MaxSteady
    /\ SteadyHand = TiltedHigh
    /\ outcome = "returned"
    /\ Abs(ehd.prev_steering - ehd_raw_steering(TiltedHigh)) <= Eps
    /\ Abs(ehd.prev_throttle - Pow15(ehd_normalized_y(TiltedHigh))) <= Eps
    /\ controls.steering = ehd.prev_steering

----------------------------------------------------------------------------
(* Further properties of EnhancedHandGestureDetector (SpecEnhanced)        *)

\* C27: a no-hand tick of EnhancedHandGestureDetector.detect_gestures
\* changes only command_stability_count, which becomes 0: prev_steering,
\* prev_throttle and last_command keep their values, and the record
\* returned is steering 0, throttle 0, braking False, boost False, gesture
\* 'No hand detected'.
C27_NoHandTick ==
    [][landmarks_list' = <<>> =>
          /\ ehd' = [ehd EXCEPT !.command_stability_count = 0]
          /\ outcome' = "returned"
          /\ controls' = ehd_default_controls]_vars

\* the hand was lost after the STOP label was recorded and the smoothing
\* values had moved away from 0
C27_Witness ==
    /\ landmarks_list = <<>>
    /\ outcome = "returned"
    /\ ehd.command_stability_count = 0
    /\ ehd.last_command = "STOP"
    /\ ehd.prev_steering > 0
    /\ ehd.prev_throttle > 0
    /\ controls.gesture_name = "No hand detected"

\* C28 (as claimed): directly after a tick on which detect_gestures
\* returned the 'Error' record, get_stable_command() returns None.
C28_Original ==
    outcome = "failed" => get_stable_command(ehd) = "None"

----------------------------------------------------------------------------
(* The command label of the detector and translate_gesture (SpecDrive)     *)

\* C29 (as claimed): on every hand-detected tick of the Enhanced detector,
\* the command label recorded through _update_command_stability equals
\* the command ImprovedCarController.translate_gesture computes from the
\* control record of that tick.
C29_Original ==
    Classified => translate_gesture(controls) = ehd.last_command

----------------------------------------------------------------------------
(* Properties of the car controllers (SpecControl)                         *)

\* C21: send_command never accepts the same command twice within
\* command_timeout.  A call whose command equals last_command and comes
\* less than command_timeout after the last accepted send returns False
\* and leaves the controller unchanged; any other call passes the filter:
\* it is accepted (last_command and last_command_time are set) in
\* simulation mode and by ImprovedCarController, and by CarController in
\* real mode exactly when the packet was sent.  ImprovedCarController
\* applies the filter to the command after mapping it to a known command.
C21_DuplicateFilter ==
    [][/\ ret'.op = "CarController.send_command" =>
            LET command == ret'.command
                accepted == /\ cc'.last_command = command
                            /\ cc'.last_command_time = now
            IN  /\ too_soon(cc, command, now) => (~ret'.value /\ cc' = cc)
                /\ ret'.value => (~too_soon(cc, command, now) /\ accepted)
                /\ (~too_soon(cc, command, now) /\ cc.simulation_mode)
                      => ret'.value
                /\ (~too_soon(cc, command, now) /\ ~cc.simulation_mode)
                      => (ret'.value <=> ret'.sent)
       /\ ret'.op = "ImprovedCarController.send_command" =>
            LET command == known_command(ret'.command)
            IN  /\ too_soon(icc, command, now) => (~ret'.value /\ icc' = icc)
                /\ ~too_soon(icc, command, now) =>
                      /\ ret'.value
                      /\ icc'.last_command = command
                      /\ icc'.last_command_time = now]_vars

\* CarController in simulation mode has refused a command 100 ms after
\* it accepted the same command
C21_Witness ==
    /\ ret.op = "CarController.send_command"
    /\ ~ret.value
    /\ cc.simulation_mode
    /\ cc.last_command = ret.command
    /\ now - cc.last_command_time = 100

\* C25 (as claimed): the command worker puts a command whose sends keep
\* failing back on the queue at most max_retries times, for every
\* interleaving of queued commands.
C25_Original ==
    /\ \A i \in 1..Len(icc.command_queue) :
          icc.command_queue[i].puts <= max_retries
    /\ worker.entry.puts <= max_retries

\* C26: once connect() has failed max_connection_attempts times in a row,
\* no later step opens a socket, connects or sends a command: the socket
\* stays None, connected stays False, connection_attempts is unchanged and
\* every _send_command_direct returns False.  A step on which the
\* controller becomes connected leaves connection_attempts at 0.
C26_ConnectGivesUp ==
    [][/\ icc.connection_attempts >= max_connection_attempts =>
            /\ icc'.connection_attempts = icc.connection_attempts
            /\ icc'.socket = "None"
            /\ ~icc'.connected
            /\ ~ret'.sent
            /\ ret'.op = "_send_command_direct" => ~ret'.value
       /\ (icc'.connected /\ ~icc.connected) =>
            icc'.connection_attempts = 0]_vars

\* failed sends counted in success_tracking
tracked_failures ==
    icc.success_tracking["FORWARD"].failure + icc.success_tracking["STOP"].failure

\* the worker's send has failed after connect() had already given up
C26_Witness ==
    /\ icc.connection_attempts = max_connection_attempts
    /\ tracked_failures > max_connection_attempts
    /\ ret.op = "_send_command_direct"
    /\ ~ret.value
    /\ icc.socket = "None"

----------------------------------------------------------------------------
(* Properties of Car (SpecCar)                                             *)

\* C22 (as claimed): the boosting and braking flags are transient also
\* when the control is released early: a tick whose controls have
\* boost=False and braking=False, run once the 1-second effect of a set
\* flag has elapsed, ends with both flags cleared and has run the regular
\* driving branch.
C22_Original ==
    [][(/\ ret'.op = "update"
        /\ ~ret'.controls.boost
        /\ ~ret'.controls.braking
        /\ car.boosting => now' - car.boost_start_time >= 1000
        /\ car.braking => now' - car.brake_start_time >= 1000)
          => /\ ~car'.boosting
             /\ ~car'.braking
             /\ car'.target_speed = controls_speed(car, ret'.controls)]_vars

\* C23: Car.boosting and Car.braking are never both true.
C23_NeverBoth == ~(car.boosting /\ car.braking)

\* a tick with both controls set has found the car braking and has kept
\* it braking without starting a boost
C23_Witness ==
    /\ ret.op = "update"
    /\ ret.controls.boost
    /\ ret.controls.braking
    /\ car.braking
    /\ ~car.boosting

\* C24: after every Car.update and Car.collide_with of a car created
\* inside the screen with speed 0, 0 <= speed <= max_speed and
\* 50 <= x <= 750.
C24_SpeedAndPosition ==
    /\ 0 <= car.speed
    /\ car.speed <= max_speed
    /\ screen_margin <= car.x
    /\ car.x <= screen_right

\* a moving car steering left has been held at the left margin
C24_Witness ==
    /\ ret.op = "update"
    /\ car.x = screen_margin
    /\ car.speed > 0
    /\ car.direction < 0

----------------------------------------------------------------------------
(* Properties of CameraManager (SpecCamera)                                *)

\* C30: whenever the camera list is non-empty,
\* 0 <= active_camera_index < len(cameras); get_frame never raises
\* IndexError and returns (False, None) when the list is empty;
\* set_active_camera with an out-of-range index returns False and leaves
\* the manager unchanged; switch_camera moves to the next camera of the
\* list, cyclically.
C30_IndexInvariant ==
    [][/\ cam'.cameras # <<>> =>
            /\ 0 <= cam'.active_camera_index
            /\ cam'.active_camera_index < Len(cam'.cameras)
       /\ ret'.op # "IndexError"
       /\ (ret'.op = "get_frame" /\ cam.cameras = <<>>) => ~ret'.value
       /\ (ret'.op = "set_active_camera"
             /\ ~(0 <= ret'.index /\ ret'.index < Len(cam.cameras)))
            => (~ret'.value /\ cam' = cam)
       /\ (ret'.op = "switch_camera" /\ Len(cam.cameras) > 1) =>
            /\ cam'.active_camera_index =
                  (cam.active_camera_index + 1) % Len(cam.cameras)
            /\ ret'.index = cam'.active_camera_index
            /\ cam'.cameras = cam.cameras]_vars

\* with two cameras open and the second one active, get_frame has read
\* the second device
C30_Witness ==
    /\ cam.cameras = <<0, 1>>
    /\ cam.active_camera_index = 1
    /\ ret.op = "get_frame"
    /\ ret.value
    /\ ret.index = 1

====
